---- MODULE Spec2Model ----
\* A model of the CORS proxy server of src/index.js: the express middleware
\* chain (express.raw, the CORS middleware), the home and health routes, and
\* the wildcard proxy handler with its outbound fetch and its streaming pump.
\*
\* Strings that the code inspects character by character (the request URL, the
\* header values derived from it) are sequences of one-character strings.
\* Strings the code only passes around (literal messages, response header
\* values) are TLA+ strings.
EXTENDS Integers, Sequences, FiniteSets, TLC

\* ---------------------------------------------------------------- bounds

\* The longest destination body, in chunks.
MaxChunks == 2

\* The longest inbound request body, in bytes.
MaxBody == 2

\* express.raw's limit ('50mb'), scaled to the model's body lengths.
BodyLimit == 1

\* ---------------------------------------------------------------- strings

\* String.prototype.startsWith
StartsWith(s, p) ==
    /\ Len(s) >= Len(p)
    /\ SubSeq(s, 1, Len(p)) = p

\* String.prototype.slice(n)
Slice(s, n) ==
    SubSeq(s, n + 1, Len(s))

\* The index of the first character of s that is in stop, Len(s) + 1 if none.
FirstOf(s, stop) ==
    IF \E i \in 1..Len(s) : s[i] \in stop
    THEN CHOOSE i \in 1..Len(s) :
            /\ s[i] \in stop
            /\ \A j \in 1..(i - 1) : s[j] \notin stop
    ELSE Len(s) + 1

\* The index of the first character of s that is not in keep, Len(s) + 1 if none.
FirstNotOf(s, keep) ==
    IF \E i \in 1..Len(s) : s[i] \notin keep
    THEN CHOOSE i \in 1..Len(s) :
            /\ s[i] \notin keep
            /\ \A j \in 1..(i - 1) : s[j] \in keep
    ELSE Len(s) + 1

Alpha ==
    {"a", "b", "c", "d", "e", "f", "g", "h", "i", "j", "k", "l", "m",
     "n", "o", "p", "q", "r", "s", "t", "u", "v", "w", "x", "y", "z"}

SchemeChars ==
    Alpha \cup {"0", "1", "2", "3", "4", "5", "6", "7", "8", "9", "+", "-", "."}

STR_http == <<"h", "t", "t", "p">>
STR_https == <<"h", "t", "t", "p", "s">>
STR_slashes == <<"/", "/">>

\* The schemes the URL standard calls special; file is left out, no string
\* that starts with 'http' names it.
SpecialSchemes ==
    {STR_http, STR_https, <<"f", "t", "p">>, <<"w", "s">>, <<"w", "s", "s">>}

\* ---------------------------------------------------------------- new URL(s)

URLFailure ==
    [ok |-> FALSE, protocol |-> <<>>, host |-> <<>>]

\* new URL(s) with no base, for inputs without credentials, port, fragment,
\* upper case or percent escapes: the scheme is the run of scheme characters
\* before the first ':'; without one the string is relative and the parse
\* throws. After a special scheme any run of slashes is skipped and the host
\* runs to the next '/', '?' or '#'; an empty host throws. After another
\* scheme the host is read only behind '//', and may be empty.
ParseURL(s) ==
    LET schemeEnd == FirstNotOf(s, SchemeChars)
    IN  IF \/ Len(s) = 0
           \/ s[1] \notin Alpha
           \/ schemeEnd > Len(s)
           \/ s[schemeEnd] # ":"
        THEN URLFailure
        ELSE
            LET scheme == SubSeq(s, 1, schemeEnd - 1)
                rest == Slice(s, schemeEnd)
            IN  IF scheme \in SpecialSchemes
                THEN
                    LET auth == Slice(rest, FirstNotOf(rest, {"/", "\\"}) - 1)
                        host == SubSeq(auth, 1, FirstOf(auth, {"/", "\\", "?", "#"}) - 1)
                    IN  IF host = <<>>
                        THEN URLFailure
                        ELSE [ok |-> TRUE, protocol |-> scheme \o <<":">>, host |-> host]
                ELSE
                    IF StartsWith(rest, STR_slashes)
                    THEN
                        LET auth == Slice(rest, 2)
                            host == SubSeq(auth, 1, FirstOf(auth, {"/", "?", "#"}) - 1)
                        IN  [ok |-> TRUE, protocol |-> scheme \o <<":">>, host |-> host]
                    ELSE [ok |-> TRUE, protocol |-> scheme \o <<":">>, host |-> <<>>]

\* ---------------------------------------------------------------- headers

\* obj[k] = v on a header object.
SetHeader(h, k, v) ==
    [x \in DOMAIN h \cup {k} |-> IF x = k THEN v ELSE h[x]]

\* delete obj[k] for every k of names.
DeleteHeaders(h, names) ==
    [x \in DOMAIN h \ names |-> h[x]]

\* The headers the handler deletes from the outbound set.
ProblematicHeaders ==
    {"x-forwarded-for", "x-forwarded-proto", "x-forwarded-host", "x-real-ip",
     "cf-connecting-ip", "cf-ray", "cf-visitor", "cf-ipcountry"}

\* TargetHeaders without the assignment to host: the proxy's own host goes out.
TargetHeadersKeepsHost(headers, targetURL) ==
    LET withOrigin == SetHeader(headers, "origin",
                                targetURL.protocol \o STR_slashes \o targetURL.host)
    IN  DeleteHeaders(withOrigin, ProblematicHeaders)

\* TargetHeaders with authorization among the deleted headers.
TargetHeadersDropsAuthorization(headers, targetURL) ==
    LET withHost == SetHeader(headers, "host", targetURL.host)
        withOrigin == SetHeader(withHost, "origin",
                                targetURL.protocol \o STR_slashes \o targetURL.host)
    IN  DeleteHeaders(withOrigin, ProblematicHeaders \cup {"authorization"})

\* The outbound header set: a copy of req.headers (node lower-cases the
\* names) with host and origin set from the parsed target and the
\* problematic headers deleted.
TargetHeaders(headers, targetURL) ==
    LET withHost == SetHeader(headers, "host", targetURL.host)
        withOrigin == SetHeader(withHost, "origin",
                                targetURL.protocol \o STR_slashes \o targetURL.host)
    IN  DeleteHeaders(withOrigin, ProblematicHeaders)

\* The destination headers the relay does not copy.
SkippedResponseHeaders ==
    {"content-encoding", "transfer-encoding", "connection", "keep-alive"}

\* The value res.header stores for a content-type: express appends the
\* charset its mime table gives for the type when the value names none.
ContentTypeWithCharset(value) ==
    CASE value = "text/html" -> "text/html; charset=utf-8"
      [] value = "application/json" -> "application/json; charset=utf-8"
      [] OTHER -> value

\* res.header(name, value) on the response's header object: the value
\* replaces the one the name had.
SetResponseHeader(h, k, v) ==
    SetHeader(h, k, IF k = "content-type" THEN ContentTypeWithCharset(v) ELSE v)

\* The loop over response.headers, whose entries are [name, value] pairs in
\* iteration order with lower-case names: res.header for every entry whose
\* name is not one of the skipped ones.
CopyResponseHeaders(resHeaders, destHeaders) ==
    LET Copied[i \in 0..Len(destHeaders)] ==
            IF i = 0
            THEN resHeaders
            ELSE IF destHeaders[i][1] \in SkippedResponseHeaders
                 THEN Copied[i - 1]
                 ELSE SetResponseHeader(Copied[i - 1], destHeaders[i][1], destHeaders[i][2])
    IN  Copied[Len(destHeaders)]

\* ---------------------------------------------------------------- bodies

NoBody ==
    [has |-> FALSE, bytes |-> <<>>]

\* The bytes of String({}), '[object Object]'.
ObjectObjectBytes ==
    <<91, 111, 98, 106, 101, 99, 116, 32, 79, 98, 106, 101, 99, 116, 93>>

\* What express.raw leaves in req.body when it does not read the body: {} up
\* to body-parser 1.x, undefined from 2.x on.
UnparsedBodies ==
    {[kind |-> "object", bytes |-> <<>>], [kind |-> "undefined", bytes |-> <<>>]}

\* express.raw({ type: '*/*', limit: '50mb' }) on one request: "skip" when the
\* request has no body or no content-type for '*/*' to match, "too-large"
\* when the body is longer than the limit, "parsed" otherwise.
RawOutcome(req) ==
    IF ~req.body.has \/ "content-type" \notin DOMAIN req.headers
    THEN "skip"
    ELSE IF Len(req.body.bytes) > BodyLimit
         THEN "too-large"
         ELSE "parsed"

\* The body option of the fetch call.
FetchBodyOption(method, body) ==
    IF method # "GET" /\ method # "HEAD"
    THEN body
    ELSE [kind |-> "undefined", bytes |-> <<>>]

\* The bytes fetch sends for a body option: a Buffer's bytes, nothing for
\* undefined, the string conversion of any other object.
ExtractBody(option) ==
    CASE option.kind = "buffer" -> [has |-> TRUE, bytes |-> option.bytes]
      [] option.kind = "undefined" -> NoBody
      [] OTHER -> [has |-> TRUE, bytes |-> ObjectObjectBytes]

\* ---------------------------------------------------------------- routing

\* req.path: the URL up to the query string.
PathOf(url) ==
    SubSeq(url, 1, FirstOf(url, {"?"}) - 1)

\* An express route path against a request path (non-strict routing: one
\* trailing slash is allowed after a route path that does not end in one).
MatchesPath(path, route) ==
    \/ path = route
    \/ /\ route[Len(route)] # "/"
       /\ path = route \o <<"/">>

\* app.get also answers HEAD.
MatchesGet(req, route) ==
    /\ req.method \in {"GET", "HEAD"}
    /\ MatchesPath(PathOf(req.url), route)

STR_root == <<"/">>
STR_health == <<"/", "h", "e", "a", "l", "t", "h">>

\* ---------------------------------------------------------------- res

EmptyHeaders ==
    [k \in {} |-> ""]

EmptyJson ==
    [k \in {} |-> ""]

NewResponse ==
    [status |-> 200, headers |-> EmptyHeaders, headersSent |-> FALSE,
     kind |-> "none", json |-> EmptyJson, chunks |-> <<>>, ended |-> FALSE]

\* res.status(code)
ResStatus(res, code) ==
    [res EXCEPT !.status = code]

\* res.header(name, value)
ResHeader(res, k, v) ==
    [res EXCEPT !.headers = SetResponseHeader(@, k, v)]

\* res.json(obj): sets content-type unless one is set and content-length to
\* the length of the JSON text, sends the head and the body and ends the
\* response. Once the head is sent setting a header throws and nothing is
\* written.
ResJson(res, obj) ==
    IF res.headersSent
    THEN res
    ELSE [res EXCEPT
            !.headers = SetHeader(
                            IF "content-type" \in DOMAIN @
                            THEN @
                            ELSE SetResponseHeader(@, "content-type", "application/json"),
                            "content-length", "length of the JSON text"),
            !.headersSent = TRUE,
            !.kind = "json",
            !.json = obj,
            !.ended = TRUE]

\* res.write(chunk): the first write sends the head.
ResWrite(res, chunk) ==
    [res EXCEPT !.headersSent = TRUE,
                !.kind = "stream",
                !.chunks = Append(@, chunk)]

\* res.end()
ResEnd(res) ==
    [res EXCEPT !.headersSent = TRUE, !.ended = TRUE]

\* Buffer.from(value): a copy of the chunk's bytes.
BufferFrom(value) ==
    [i \in 1..Len(value) |-> value[i]]

\* ---------------------------------------------------------------- inputs

Reqs ==
    {"r1", "r2"}

\* The requests that arrive under Spec.
Solo ==
    {"r1"}

Methods ==
    {"GET", "HEAD", "OPTIONS", "POST", "PUT"}

\* req.originalUrl
OriginalUrls ==
    { <<"/">>,
      <<"/", "?", "q">>,
      <<"/", "h", "e", "a", "l", "t", "h">>,
      <<"/", "h", "e", "a", "l", "t", "h", "/">>,
      <<"/", "n", "o", "t", "-", "a", "-", "u", "r", "l">>,
      <<"/", "f", "t", "p", ":", "/", "/", "a">>,
      <<"/", "h", "t", "t", "p", "f", "o", "o">>,
      <<"/", "h", "t", "t", "p", ":", "/", "/">>,
      <<"/", "h", "t", "t", "p", "x", ":", "/", "/", "a">>,
      <<"/", "h", "t", "t", "p", ":", "/", "a">>,
      <<"/", "h", "t", "t", "p", ":", "/", "/", "a">>,
      <<"/", "h", "t", "t", "p", "s", ":", "/", "/", "b", "/", "c", "?", "q">> }

\* The value of every header a caller may send; host is the proxy's own.
InboundHeaderValues ==
    [h \in ProblematicHeaders \cup
           {"host", "origin", "authorization", "cookie", "content-type"} |->
        CASE h = "host" -> <<"p">>
          [] h = "origin" -> <<"o">>
          [] h = "authorization" -> <<"k">>
          [] h = "cookie" -> <<"s">>
          [] h = "content-type" -> <<"t">>
          [] OTHER -> <<"c">>]

InboundHeaderNames ==
    { {"host"},
      {"host", "content-type"},
      DOMAIN InboundHeaderValues \ {"content-type"},
      DOMAIN InboundHeaderValues }

InboundHeaders ==
    { [h \in names |-> InboundHeaderValues[h]] : names \in InboundHeaderNames }

Bytes ==
    {0, 255}

SeqsUpTo(S, n) ==
    UNION { [1..k -> S] : k \in 0..n }

InboundBodies ==
    {NoBody} \cup { [has |-> TRUE, bytes |-> b] : b \in SeqsUpTo(Bytes, MaxBody) }

Inbounds ==
    [method : Methods, url : OriginalUrls, headers : InboundHeaders,
     body : InboundBodies]

NoInbound ==
    [method |-> "", url |-> <<>>, headers |-> [h \in {} |-> <<>>], body |-> NoBody]

\* The chunks a destination body is delivered in: never empty, not all text.
ChunkValues ==
    { <<0>>, <<255, 254>> }

Statuses ==
    {200, 204, 404}

\* The statuses whose response has a null body.
NullBodyStatuses ==
    {101, 204, 205, 304}

\* The number of bytes in a sequence of chunks.
TotalBytes(chunks) ==
    LET Total[i \in 0..Len(chunks)] ==
            IF i = 0 THEN 0 ELSE Total[i - 1] + Len(chunks[i])
    IN  Total[Len(chunks)]

\* The length of the gzip encoding of n bytes, for the few bytes of a model
\* body: ten bytes of header, eight of trailer and a stored deflate block.
GzipLength(n) ==
    n + 23

\* The header lists of a destination whose body, as the pump reads it, has
\* the given number of bytes. fetch decodes a content-encoded body and leaves
\* content-encoding and content-length as the destination sent them, and its
\* iteration yields one entry per set-cookie header.
DestHeaders(bodyLength) ==
    { <<>>,
      << <<"content-length", bodyLength>>, <<"content-type", "audio/mpeg">> >>,
      << <<"access-control-allow-origin", "https://dest.example">>,
         <<"connection", "close">>,
         <<"keep-alive", "timeout=5">>,
         <<"transfer-encoding", "chunked">>,
         <<"x-custom", "v">> >>,
      << <<"content-encoding", "gzip">>,
         <<"content-length", GzipLength(bodyLength)>> >>,
      << <<"content-type", "text/html">>,
         <<"set-cookie", "a=1">>,
         <<"set-cookie", "b=2">> >> }

\* The responses a fetch of the given method can resolve to: status, headers
\* and a body that is null (HEAD, null-body statuses) or a stream of chunks
\* whose read number failAt (from 0) rejects when fails is set.
Upstreams(method) ==
    LET nullBody == [status : Statuses, headers : DestHeaders(0), bodyNull : {TRUE},
                     chunks : {<<>>}, fails : {FALSE}, failAt : {0}]
        streams ==
            UNION { [status : Statuses \ NullBodyStatuses,
                     headers : DestHeaders(TotalBytes(cs)),
                     bodyNull : {FALSE}, chunks : {cs}, fails : BOOLEAN,
                     failAt : 0..Len(cs)] : cs \in SeqsUpTo(ChunkValues, MaxChunks) }
    IN  IF method = "HEAD"
        THEN nullBody
        ELSE { u \in nullBody : u.status \in NullBodyStatuses }
             \cup { u \in streams : u.fails \/ u.failAt = 0 }

NoUpstream ==
    [status |-> 0, headers |-> <<>>, bodyNull |-> TRUE, chunks |-> <<>>,
     fails |-> FALSE, failAt |-> 0]

FetchErrors ==
    {"fetch failed"}

StreamErrors ==
    {"terminated"}

NothingCaught ==
    [where |-> "none", message |-> ""]

\* ---------------------------------------------------------------- state

VARIABLES
    pc,         \* where each request is: idle, raw, cors, fetching, pumping, done
    inbound,    \* the request as the caller sent it
    reqBody,    \* req.body, as express.raw left it
    route,      \* what answered the request: none, raw-error, preflight, home, health, proxy
    targetUrl,  \* the handler's targetUrl
    outbound,   \* the fetch calls the handler made, in order
    upstream,   \* the response the fetch resolved to
    readIdx,    \* the reads of the destination body that returned a chunk
    res,        \* the response to the caller
    caught,     \* the error the handler caught, and in which catch
    silent,     \* whether the destination of the request's fetch never answers
    conn,       \* the caller's connection: closed, and waiting for 'drain'
    proc        \* the process: running or exited

\* The caller's connection when the request arrives: open, nothing buffered.
\* readsAtClose is readIdx as it was when the caller went away.
OpenConnection ==
    [closed |-> FALSE, needDrain |-> FALSE, readsAtClose |-> 0]

vars ==
    <<pc, inbound, reqBody, route, targetUrl, outbound, upstream, readIdx, res, caught,
      silent, conn, proc>>

Init ==
    /\ pc = [r \in Reqs |-> "idle"]
    /\ inbound = [r \in Reqs |-> NoInbound]
    /\ reqBody = [r \in Reqs |-> [kind |-> "undefined", bytes |-> <<>>]]
    /\ route = [r \in Reqs |-> "none"]
    /\ targetUrl = [r \in Reqs |-> <<>>]
    /\ outbound = [r \in Reqs |-> <<>>]
    /\ upstream = [r \in Reqs |-> NoUpstream]
    /\ readIdx = [r \in Reqs |-> 0]
    /\ res = [r \in Reqs |-> NewResponse]
    /\ caught = [r \in Reqs |-> NothingCaught]
    /\ silent = [r \in Reqs |-> FALSE]
    /\ conn = [r \in Reqs |-> OpenConnection]
    /\ proc = "running"

\* ---------------------------------------------------------------- receiving

\* A request arrives, one of requests.
ReceiveFrom(r, requests) ==
    /\ proc = "running"
    /\ pc[r] = "idle"
    /\ \E req \in requests :
        inbound' = [inbound EXCEPT ![r] = req]
    /\ pc' = [pc EXCEPT ![r] = "raw"]
    /\ UNCHANGED <<reqBody, route, targetUrl, outbound, upstream, readIdx, res, caught>>
    /\ UNCHANGED <<silent, conn, proc>>

\* A request arrives.
Receive(r) ==
    ReceiveFrom(r, Inbounds)

\* The response of express's default error handler to an error a middleware
\* passed on: the error's status and an HTML page, with headers of its own.
DefaultErrorResponse(res0, status) ==
    [res0 EXCEPT
        !.status = status,
        !.headers = [h \in {"content-security-policy", "x-content-type-options",
                            "content-type"} |->
                        CASE h = "content-security-policy" -> "default-src 'none'"
                          [] h = "x-content-type-options" -> "nosniff"
                          [] OTHER -> "text/html; charset=utf-8"],
        !.headersSent = TRUE,
        !.kind = "html",
        !.ended = TRUE]

\* The first middleware, express.raw: it leaves the body unread, reads it into
\* a Buffer and calls next(), or fails with 413 and calls next(err), which
\* skips every middleware and route registered after it.
ExpressRaw(r) ==
    /\ proc = "running"
    /\ pc[r] = "raw"
    /\ LET outcome == RawOutcome(inbound[r])
       IN  CASE outcome = "skip" ->
                    /\ \E b \in UnparsedBodies : reqBody' = [reqBody EXCEPT ![r] = b]
                    /\ pc' = [pc EXCEPT ![r] = "cors"]
                    /\ UNCHANGED <<route, res>>
             [] outcome = "parsed" ->
                    /\ reqBody' = [reqBody EXCEPT ![r] =
                            [kind |-> "buffer", bytes |-> inbound[r].body.bytes]]
                    /\ pc' = [pc EXCEPT ![r] = "cors"]
                    /\ UNCHANGED <<route, res>>
             [] OTHER ->
                    /\ res' = [res EXCEPT ![r] = DefaultErrorResponse(@, 413)]
                    /\ route' = [route EXCEPT ![r] = "raw-error"]
                    /\ pc' = [pc EXCEPT ![r] = "done"]
                    /\ UNCHANGED reqBody
    /\ UNCHANGED <<inbound, targetUrl, outbound, upstream, readIdx, caught>>
    /\ UNCHANGED <<silent, conn, proc>>

\* ---------------------------------------------------------------- CORS

\* The three res.header calls of the CORS middleware.
CorsHeaders(res0) ==
    LET a == ResHeader(res0, "access-control-allow-origin", "*")
        b == ResHeader(a, "access-control-allow-methods",
                       "GET, POST, PUT, DELETE, OPTIONS, PATCH")
    IN  ResHeader(b, "access-control-allow-headers", "*")

\* The CORS middleware on an OPTIONS request: 200, ended, next() not called.
Preflight(r) ==
    /\ proc = "running"
    /\ pc[r] = "cors"
    /\ inbound[r].method = "OPTIONS"
    /\ res' = [res EXCEPT ![r] = ResEnd(ResStatus(CorsHeaders(@), 200))]
    /\ route' = [route EXCEPT ![r] = "preflight"]
    /\ pc' = [pc EXCEPT ![r] = "done"]
    /\ UNCHANGED <<inbound, reqBody, targetUrl, outbound, upstream, readIdx, caught>>
    /\ UNCHANGED <<silent, conn, proc>>

\* `${req.protocol}://${req.get('host')}<suffix>`
ExampleUrl(req, suffix) ==
    [protocol |-> "http", host |-> req.headers["host"], suffix |-> suffix]

HomeDocument(req) ==
    [message |-> "CORS Proxy Server",
     usage |->
        [description |-> "Add your target URL after the base URL",
         examples |->
            << ExampleUrl(req, "/https://api.github.com/users/octocat"),
               ExampleUrl(req, "/https://httpbin.org/json"),
               ExampleUrl(req, "/https://example.com/file.mp3") >>,
         note |-> "This proxy adds CORS headers to any request"]]

\* The CORS middleware, then app.get('/').
Home(r) ==
    /\ proc = "running"
    /\ pc[r] = "cors"
    /\ inbound[r].method # "OPTIONS"
    /\ MatchesGet(inbound[r], STR_root)
    /\ res' = [res EXCEPT ![r] = ResJson(CorsHeaders(@), HomeDocument(inbound[r]))]
    /\ route' = [route EXCEPT ![r] = "home"]
    /\ pc' = [pc EXCEPT ![r] = "done"]
    /\ UNCHANGED <<inbound, reqBody, targetUrl, outbound, upstream, readIdx, caught>>
    /\ UNCHANGED <<silent, conn, proc>>

\* The CORS middleware, then app.get('/health'); the clock readings are not
\* modelled.
Health(r) ==
    /\ proc = "running"
    /\ pc[r] = "cors"
    /\ inbound[r].method # "OPTIONS"
    /\ ~MatchesGet(inbound[r], STR_root)
    /\ MatchesGet(inbound[r], STR_health)
    /\ res' = [res EXCEPT ![r] =
            ResJson(CorsHeaders(@),
                    [status |-> "healthy", timestamp |-> "now", uptime |-> "uptime"])]
    /\ route' = [route EXCEPT ![r] = "health"]
    /\ pc' = [pc EXCEPT ![r] = "done"]
    /\ UNCHANGED <<inbound, reqBody, targetUrl, outbound, upstream, readIdx, caught>>
    /\ UNCHANGED <<silent, conn, proc>>

\* ---------------------------------------------------------------- the proxy handler

\* TargetOf with targetUrl a variable of the module, shared by every request:
\* a handler that resumes finds the target another request assigned last.
TargetOfShared(originalUrl) ==
    LET assigned == { q \in Reqs : targetUrl[q] # <<>> }
    IN  IF assigned # {}
        THEN targetUrl[CHOOSE q \in assigned : TRUE]
        ELSE IF StartsWith(originalUrl, <<"/">>)
        THEN Slice(originalUrl, 1)
        ELSE originalUrl

\* targetUrl: req.originalUrl without its leading slash.
TargetOf(originalUrl) ==
    IF StartsWith(originalUrl, <<"/">>)
    THEN Slice(originalUrl, 1)
    ELSE originalUrl

\* The body of the 400 of the prefix validation.
InvalidUrlBody(req, target) ==
    [error |-> "Invalid URL",
     message |-> "URL must start with http:// or https://",
     example |-> ExampleUrl(req, "/https://api.example.com"),
     received |-> target,
     debug |-> [url |-> req.url, originalUrl |-> req.url, method |-> req.method]]

\* The body of the 400 of the URL parse failure.
InvalidFormatBody(target) ==
    [error |-> "Invalid URL format",
     message |-> "Could not parse the provided URL",
     url |-> target]

\* PassesPrefixCheck that only rejects the empty target.
PassesPrefixCheckNonEmpty(target) ==
    target # <<>>

\* The prefix validation of targetUrl.
PassesPrefixCheck(target) ==
    /\ target # <<>>
    /\ StartsWith(target, STR_http)

\* The arguments of the fetch call.
FetchCall(req, body, target, targetURL) ==
    [url |-> target,
     method |-> req.method,
     headers |-> TargetHeaders(req.headers, targetURL),
     body |-> ExtractBody(FetchBodyOption(req.method, body))]

\* The CORS middleware, then app.all('*') up to its first await: a 400, or
\* the fetch call.
Proxy(r) ==
    /\ proc = "running"
    /\ pc[r] = "cors"
    /\ inbound[r].method # "OPTIONS"
    /\ ~MatchesGet(inbound[r], STR_root)
    /\ ~MatchesGet(inbound[r], STR_health)
    /\ LET req == inbound[r]
           target == TargetOf(req.url)
           targetURL == ParseURL(target)
           withCors == CorsHeaders(res[r])
       IN  /\ targetUrl' = [targetUrl EXCEPT ![r] = target]
           /\ IF ~PassesPrefixCheck(target)
              THEN /\ res' = [res EXCEPT ![r] =
                            ResJson(ResStatus(withCors, 400), InvalidUrlBody(req, target))]
                   /\ pc' = [pc EXCEPT ![r] = "done"]
                   /\ UNCHANGED <<outbound, silent>>
              ELSE IF ~targetURL.ok
              THEN /\ res' = [res EXCEPT ![r] =
                            ResJson(ResStatus(withCors, 400), InvalidFormatBody(target))]
                   /\ pc' = [pc EXCEPT ![r] = "done"]
                   /\ UNCHANGED <<outbound, silent>>
              ELSE /\ res' = [res EXCEPT ![r] = withCors]
                   /\ outbound' = [outbound EXCEPT ![r] =
                            Append(@, FetchCall(req, reqBody[r], target, targetURL))]
                   /\ \E never \in BOOLEAN :
                        silent' = [silent EXCEPT ![r] = never]
                   /\ pc' = [pc EXCEPT ![r] = "fetching"]
    /\ route' = [route EXCEPT ![r] = "proxy"]
    /\ UNCHANGED <<inbound, reqBody, upstream, readIdx, caught, conn, proc>>

\* The calls fetch rejects whatever the network does: a URL whose scheme is
\* not http or https, a GET or HEAD with a body.
FetchMustReject(call) ==
    \/ ParseURL(call.url).protocol \notin {STR_http \o <<":">>, STR_https \o <<":">>}
    \/ call.method \in {"GET", "HEAD"} /\ call.body.has

\* The body of the 500 of the outer catch; stack is there in development only.
ProxyErrorBody(message, development) ==
    IF development
    THEN [error |-> "Proxy Error", message |-> message, stack |-> "stack"]
    ELSE [error |-> "Proxy Error", message |-> message]

\* OuterCatch that answers nothing: the error is swallowed.
OuterCatchSwallows(res0, message, development) ==
    res0

\* The outer catch.
OuterCatch(res0, message, development) ==
    IF ~res0.headersSent
    THEN ResJson(ResStatus(res0, 500), ProxyErrorBody(message, development))
    ELSE res0

\* The awaited fetch rejects: the outer catch runs and the handler returns.
FetchReject(r) ==
    /\ proc = "running"
    /\ pc[r] = "fetching"
    /\ \E message \in FetchErrors, development \in BOOLEAN :
        /\ res' = [res EXCEPT ![r] = OuterCatch(@, message, development)]
        /\ caught' = [caught EXCEPT ![r] = [where |-> "outer", message |-> message]]
    /\ pc' = [pc EXCEPT ![r] = "done"]
    /\ UNCHANGED <<inbound, reqBody, route, targetUrl, outbound, upstream, readIdx>>
    /\ UNCHANGED <<silent, conn, proc>>

\* res.status(response.status) and the copy of the response headers.
RelayHead(res0, response) ==
    [ResStatus(res0, response.status) EXCEPT
        !.headers = CopyResponseHeaders(@, response.headers)]

\* The awaited fetch resolves to one of responses: status and headers are set
\* on res; a null body ends the response, any other starts the pump.
FetchResolveFrom(r, responses) ==
    /\ proc = "running"
    /\ pc[r] = "fetching"
    /\ ~silent[r]
    /\ ~FetchMustReject(outbound[r][Len(outbound[r])])
    /\ \E response \in responses :
        /\ upstream' = [upstream EXCEPT ![r] = response]
        /\ IF response.bodyNull
           THEN /\ res' = [res EXCEPT ![r] = ResEnd(RelayHead(@, response))]
                /\ pc' = [pc EXCEPT ![r] = "done"]
           ELSE /\ res' = [res EXCEPT ![r] = RelayHead(@, response)]
                /\ pc' = [pc EXCEPT ![r] = "pumping"]
    /\ UNCHANGED <<inbound, reqBody, route, targetUrl, outbound, readIdx, caught>>
    /\ UNCHANGED <<silent, conn, proc>>

\* The awaited fetch resolves.
FetchResolve(r) ==
    FetchResolveFrom(r, Upstreams(inbound[r].method))

\* ---------------------------------------------------------------- the pump

\* PumpCatch without the headersSent test.
PumpCatchUnguarded(res0, message) ==
    ResJson(ResStatus(res0, 500), [error |-> "Stream error", message |-> message])

\* PumpCatch without res.status(500): the destination's status stays.
PumpCatchKeepsStatus(res0, message) ==
    IF ~res0.headersSent
    THEN ResJson(res0, [error |-> "Stream error", message |-> message])
    ELSE res0

\* The catch of the pump.
PumpCatch(res0, message) ==
    IF ~res0.headersSent
    THEN ResJson(ResStatus(res0, 500), [error |-> "Stream error", message |-> message])
    ELSE res0

\* PumpWrite with the chunk decoded as UTF-8 text on the way: every byte that
\* is no ASCII character becomes the three bytes of U+FFFD.
PumpWriteAsText(res0, value) ==
    LET Decoded[i \in 0..Len(value)] ==
            IF i = 0
            THEN <<>>
            ELSE Decoded[i - 1] \o
                 (IF value[i] < 128 THEN <<value[i]>> ELSE <<239, 191, 189>>)
    IN  ResWrite(res0, Decoded[Len(value)])

\* One chunk of the loop: res.write(Buffer.from(value)).
PumpWrite(res0, value) ==
    ResWrite(res0, BufferFrom(value))

\* One awaited reader.read() of the pump settles: it rejects and the catch
\* runs, or it reports done and the response is ended, or it yields a chunk
\* that is written before the next read. res.write returns false when the
\* caller's connection has buffered up to its high-water mark (one of full);
\* the loop does not look at what it returns.
PumpReadWith(r, full) ==
    /\ proc = "running"
    /\ pc[r] = "pumping"
    /\ LET response == upstream[r]
           i == readIdx[r]
       IN  IF response.fails /\ i = response.failAt
           THEN /\ \E message \in StreamErrors :
                    /\ res' = [res EXCEPT ![r] = PumpCatch(@, message)]
                    /\ caught' = [caught EXCEPT ![r] =
                            [where |-> "pump", message |-> message]]
                /\ pc' = [pc EXCEPT ![r] = "done"]
                /\ UNCHANGED <<readIdx, conn>>
           ELSE IF i = Len(response.chunks)
           THEN /\ res' = [res EXCEPT ![r] = ResEnd(@)]
                /\ pc' = [pc EXCEPT ![r] = "done"]
                /\ UNCHANGED <<readIdx, caught, conn>>
           ELSE /\ res' = [res EXCEPT ![r] = PumpWrite(@, response.chunks[i + 1])]
                /\ readIdx' = [readIdx EXCEPT ![r] = i + 1]
                /\ \E writeReturnsFalse \in full :
                     conn' = [conn EXCEPT ![r].needDrain =
                                 ~conn[r].closed /\ (@ \/ writeReturnsFalse)]
                /\ UNCHANGED <<pc, caught>>
    /\ UNCHANGED <<inbound, reqBody, route, targetUrl, outbound, upstream, silent, proc>>

\* A read of the pump, with a caller that takes every chunk as it is written.
PumpRead(r) ==
    PumpReadWith(r, {FALSE})

\* ---------------------------------------------------------------- specification

Step(r) ==
    \/ Receive(r)
    \/ ExpressRaw(r)
    \/ Preflight(r)
    \/ Home(r)
    \/ Health(r)
    \/ Proxy(r)
    \/ FetchReject(r)
    \/ FetchResolve(r)
    \/ PumpRead(r)

Next ==
    \E r \in Solo : Step(r)

Spec ==
    Init /\ [][Next]_vars

\* ---------------------------------------------------------------- the environment

\* The caller's connection emits 'drain': what res.write had buffered has
\* been taken. No code of the handler waits for it.
Drain(r) ==
    /\ proc = "running"
    /\ conn[r].needDrain
    /\ ~conn[r].closed
    /\ conn' = [conn EXCEPT ![r].needDrain = FALSE]
    /\ UNCHANGED <<pc, inbound, reqBody, route, targetUrl, outbound, upstream, readIdx>>
    /\ UNCHANGED <<res, caught, silent, proc>>

\* The caller goes away before its response is finished. The handler has no
\* listener for it and passes fetch no signal: no state of the handler changes.
CallerDisconnect(r) ==
    /\ proc = "running"
    /\ pc[r] # "idle"
    /\ ~res[r].ended
    /\ ~conn[r].closed
    /\ conn' = [conn EXCEPT ![r] =
                    [closed |-> TRUE, needDrain |-> FALSE, readsAtClose |-> readIdx[r]]]
    /\ UNCHANGED <<pc, inbound, reqBody, route, targetUrl, outbound, upstream, readIdx>>
    /\ UNCHANGED <<res, caught, silent, proc>>

\* SIGTERM or SIGINT: the handler logs a line and calls process.exit(0).
Signal ==
    /\ proc = "running"
    /\ proc' = "exited"
    /\ UNCHANGED <<pc, inbound, reqBody, route, targetUrl, outbound, upstream, readIdx>>
    /\ UNCHANGED <<res, caught, silent, conn>>

\* A few requests, one for every route, for the runs of two requests.
EnvInbounds ==
    LET headersOf(names) == [h \in names |-> InboundHeaderValues[h]]
    IN  { [method |-> "OPTIONS", url |-> <<"/", "h", "t", "t", "p", ":", "/", "/", "a">>,
           headers |-> headersOf({"host", "origin"}), body |-> NoBody],
          [method |-> "GET", url |-> <<"/">>,
           headers |-> headersOf({"host"}), body |-> NoBody],
          [method |-> "GET", url |-> <<"/", "h", "e", "a", "l", "t", "h">>,
           headers |-> headersOf({"host"}), body |-> NoBody],
          [method |-> "GET", url |-> <<"/", "h", "t", "t", "p", ":", "/", "/", "a">>,
           headers |-> headersOf({"host"}), body |-> NoBody],
          [method |-> "POST",
           url |-> <<"/", "h", "t", "t", "p", "s", ":", "/", "/", "b", "/", "c", "?", "q">>,
           headers |-> headersOf({"host", "content-type"}),
           body |-> [has |-> TRUE, bytes |-> <<0>>]] }

\* A few responses for the runs of two requests: no headers, a null body or
\* two different chunks, read to the end or failing at the second read.
EnvUpstreams(method) ==
    { u \in Upstreams(method) :
        /\ u.headers = <<>>
        /\ u.status \in {200, 204}
        /\ \/ u.bodyNull
           \/ /\ Len(u.chunks) = 2
              /\ u.chunks[1] # u.chunks[2]
              /\ u.fails => u.failAt = 1 }

EnvReceive(r) ==
    ReceiveFrom(r, EnvInbounds)

EnvFetchResolve(r) ==
    FetchResolveFrom(r, EnvUpstreams(inbound[r].method))

\* A read of the pump; the caller may be slower than the destination.
EnvPumpRead(r) ==
    PumpReadWith(r, BOOLEAN)

EnvStep(r) ==
    \/ EnvReceive(r)
    \/ ExpressRaw(r)
    \/ Preflight(r)
    \/ Home(r)
    \/ Health(r)
    \/ Proxy(r)
    \/ FetchReject(r)
    \/ EnvFetchResolve(r)
    \/ EnvPumpRead(r)
    \/ Drain(r)
    \/ CallerDisconnect(r)

EnvNext ==
    \/ Signal
    \/ \E r \in Reqs : EnvStep(r)

\* The awaited fetch settles: the destination answers, or the connection
\* fails, or the timeouts of fetch's dispatcher (which the call leaves at
\* their defaults) end the wait.
FetchSettles(r) ==
    FetchReject(r) \/ EnvFetchResolve(r)

\* Two requests in flight, with callers that may be slow or go away, a
\* destination that may never answer, and signals.
EnvSpec ==
    Init /\ [][EnvNext]_vars /\ \A r \in Reqs : WF_vars(FetchSettles(r))

\* ---------------------------------------------------------------- properties

STR_httpSep == <<"h", "t", "t", "p", ":", "/", "/">>
STR_httpsSep == <<"h", "t", "t", "p", "s", ":", "/", "/">>
STR_sep == <<":", "/", "/">>

\* The last fetch call of a request that made one.
LastCall(r) ==
    outbound[r][Len(outbound[r])]

IsPrefix(s, t) ==
    /\ Len(s) <= Len(t)
    /\ SubSeq(t, 1, Len(s)) = s

\* The response is a JSON error of one of the given kinds.
IsJsonError(res0, status, kinds) ==
    /\ res0.headersSent
    /\ res0.status = status
    /\ res0.kind = "json"
    /\ "error" \in DOMAIN res0.json
    /\ res0.json.error \in kinds

\* C1: a request that reaches the proxy route with a target that does not
\* begin with 'http://' or 'https://' is answered 400 with an invalid-target
\* error.
C1_NonHttpTargetIs400 ==
    \A r \in Reqs :
        ( /\ route[r] = "proxy"
          /\ ~StartsWith(targetUrl[r], STR_httpSep)
          /\ ~StartsWith(targetUrl[r], STR_httpsSep) )
        => IsJsonError(res[r], 400, {"Invalid URL", "Invalid URL format"})

\* C2: every response the server sends carries Access-Control-Allow-Origin
\* with the value '*'.
C2_EveryResponseAllowsAnyOrigin ==
    \A r \in Reqs :
        res[r].headersSent
        => /\ "access-control-allow-origin" \in DOMAIN res[r].headers
           /\ res[r].headers["access-control-allow-origin"] = "*"

\* The client-identity headers C3 names.
C3_IdentityHeaders ==
    {"x-forwarded-for", "x-forwarded-proto", "x-forwarded-host", "x-real-ip",
     "cf-connecting-ip", "cf-ray", "cf-visitor", "cf-ipcountry"}

\* C3: every outbound request to a URL u has host equal to u's host, origin
\* equal to u's scheme + '://' + u's host, and none of the client-identity
\* headers.
C3_OutboundHeadersSanitized ==
    \A r \in Reqs :
        \A i \in 1..Len(outbound[r]) :
            LET call == outbound[r][i]
                u == ParseURL(call.url)
                scheme == SubSeq(u.protocol, 1, Len(u.protocol) - 1)
            IN  /\ {"host", "origin"} \subseteq DOMAIN call.headers
                /\ call.headers["host"] = u.host
                /\ call.headers["origin"] = scheme \o STR_sep \o u.host
                /\ DOMAIN call.headers \cap C3_IdentityHeaders = {}

\* C3's case: an outbound request was issued for a request that carried every
\* client-identity header, a host other than the target's, and an origin.
C3_Witness ==
    \E r \in Reqs :
        /\ Len(outbound[r]) = 1
        /\ C3_IdentityHeaders \cup {"origin"} \subseteq DOMAIN inbound[r].headers
        /\ inbound[r].headers["host"] # ParseURL(LastCall(r).url).host
        /\ ParseURL(LastCall(r).url).protocol = STR_https \o <<":">>

\* C4: the outbound body is decided by the inbound method and body alone: none
\* for GET and HEAD, the inbound raw body, byte for byte, for any other method.
C4_OutboundBodyMirrorsInbound ==
    \A r \in Reqs :
        \A i \in 1..Len(outbound[r]) :
            IF outbound[r][i].method \in {"GET", "HEAD"}
            THEN ~outbound[r][i].body.has
            ELSE outbound[r][i].body = inbound[r].body

\* C5: the chunks written to the caller are at every moment a prefix of the
\* destination's chunks, and equal to them when the relay completes without
\* an error.
C5_RelayedChunksArePrefix ==
    \A r \in Reqs :
        /\ IsPrefix(res[r].chunks, upstream[r].chunks)
        /\ ( /\ pc[r] = "done"
             /\ upstream[r] # NoUpstream
             /\ caught[r].where = "none" )
           => /\ res[r].chunks = upstream[r].chunks
              /\ res[r].ended

\* C5's case: a relay of two different chunks completed.
C5_Witness ==
    \E r \in Reqs :
        /\ pc[r] = "done"
        /\ caught[r].where = "none"
        /\ Len(upstream[r].chunks) = 2
        /\ upstream[r].chunks[1] # upstream[r].chunks[2]
        /\ res[r].chunks = upstream[r].chunks

\* C6: once the head of a response is sent, no step changes its status or
\* its headers or writes a JSON body.
C6_NoSecondHead ==
    [][ \A r \in Reqs :
            res[r].headersSent
            => /\ res'[r].headersSent
               /\ res'[r].status = res[r].status
               /\ res'[r].headers = res[r].headers
               /\ res'[r].json = res[r].json ]_vars

\* C6's case: the pump's catch ran after a chunk was written.
C6_Witness ==
    \E r \in Reqs :
        /\ caught[r].where = "pump"
        /\ Len(res[r].chunks) >= 1
        /\ res[r].status = upstream[r].status

\* C7: a relay that fails after a chunk was flushed leaves the response
\* ended once the handler has returned.
C7_FailedRelayIsTerminated ==
    \A r \in Reqs :
        ( /\ pc[r] = "done"
          /\ caught[r].where = "pump"
          /\ Len(res[r].chunks) >= 1 )
        => res[r].ended

\* C8: a read of the destination body that fails before anything was flushed
\* is answered 500 with the JSON stream error.
C8_EarlyStreamFailureIs500 ==
    \A r \in Reqs :
        ( /\ caught[r].where = "pump"
          /\ Len(res[r].chunks) = 0 )
        => /\ IsJsonError(res[r], 500, {"Stream error"})
           /\ res[r].json.message = caught[r].message
           /\ res[r].ended

\* C8's case: the first read failed on a destination that answered 404.
C8_Witness ==
    \E r \in Reqs :
        /\ caught[r].where = "pump"
        /\ Len(res[r].chunks) = 0
        /\ upstream[r].status = 404
        /\ Len(upstream[r].chunks) = 2

\* The fields of an error body that may carry the target.
TargetFields ==
    {"target", "url", "received"}

\* C9: a failed outbound call is answered 500 with a JSON body that holds the
\* error's message and the target URL.
C9_FetchFailureNamesTarget ==
    \A r \in Reqs :
        caught[r].where = "outer"
        => /\ IsJsonError(res[r], 500, {"Proxy Error"})
           /\ res[r].json.message = caught[r].message
           /\ \E f \in DOMAIN res[r].json \cap TargetFields :
                res[r].json[f] = targetUrl[r]

\* C10: every 400 has a JSON body with error, message, example and received,
\* received being the target.
C10_Every400NamesReceived ==
    \A r \in Reqs :
        ( /\ route[r] = "proxy"
          /\ res[r].headersSent
          /\ res[r].status = 400 )
        => /\ res[r].kind = "json"
           /\ {"error", "message", "example", "received"} \subseteq DOMAIN res[r].json
           /\ res[r].json.received = targetUrl[r]

\* C11: an OPTIONS request, on any path, is answered 200 with no body and the
\* CORS headers, and reaches neither the target validation nor the fetch.
C11_PreflightShortCircuits ==
    \A r \in Reqs :
        inbound[r].method = "OPTIONS"
        => /\ route[r] # "proxy"
           /\ outbound[r] = <<>>
           /\ pc[r] = "done"
              => /\ res[r].status = 200
                 /\ res[r].ended
                 /\ res[r].kind = "none"
                 /\ res[r].chunks = <<>>
                 /\ {"access-control-allow-origin", "access-control-allow-methods",
                     "access-control-allow-headers"} \subseteq DOMAIN res[r].headers

\* The headers C12 says are never copied.
C12_Denied ==
    {"content-encoding", "transfer-encoding", "connection", "keep-alive"}

\* C12: the headers copied to a relayed response are the destination's
\* without the four denied ones: none of the four is there, every other
\* destination header is there with its value.
C12_HeadersCopiedExceptDenied ==
    \A r \in Reqs :
        (upstream[r] # NoUpstream /\ caught[r].where = "none")
        => \A i \in 1..Len(upstream[r].headers) :
            LET name == upstream[r].headers[i][1]
                value == upstream[r].headers[i][2]
            IN  IF name \in C12_Denied
                THEN name \notin DOMAIN res[r].headers
                ELSE /\ name \in DOMAIN res[r].headers
                     /\ res[r].headers[name] = value

\* C20: the content-length of a relayed response that has one is the number
\* of body bytes the relay wrote.
C20_ContentLengthMatchesBody ==
    \A r \in Reqs :
        ( /\ pc[r] = "done"
          /\ upstream[r] # NoUpstream
          /\ ~upstream[r].bodyNull
          /\ caught[r].where = "none"
          /\ "content-length" \in DOMAIN res[r].headers )
        => res[r].headers["content-length"] = TotalBytes(res[r].chunks)

\* C17: every inbound header other than host, origin and the client-identity
\* headers is in the outbound header set with its inbound value, and the
\* outbound set holds no other header.
C17_OtherHeadersForwardedVerbatim ==
    \A r \in Reqs :
        \A i \in 1..Len(outbound[r]) :
            LET sent == outbound[r][i].headers
                kept == DOMAIN inbound[r].headers
                            \ ({"host", "origin"} \cup C3_IdentityHeaders)
            IN  /\ \A h \in kept :
                    /\ h \in DOMAIN sent
                    /\ sent[h] = inbound[r].headers[h]
                /\ DOMAIN sent = kept \cup {"host", "origin"}

\* C17's case: a request with authorization, cookie and content-type, and the
\* client-identity headers beside them, was forwarded.
C17_Witness ==
    \E r \in Reqs :
        /\ Len(outbound[r]) = 1
        /\ {"authorization", "cookie", "content-type", "x-real-ip"}
                \subseteq DOMAIN inbound[r].headers
        /\ LastCall(r).headers["authorization"] = <<"k">>

C13_SilentDestinationGets500 ==
    \A r \in Reqs :
        (pc[r] = "fetching" /\ silent[r])
            ~> ( \/ proc = "exited"
                 \/ /\ pc[r] = "done"
                    /\ IsJsonError(res[r], 500, {"Proxy Error"})
                    /\ res[r].ended )

\* C13's case: a request whose destination never answered was finished with
\* the 500, the caller still there to receive it and the process running.
C13_Witness ==
    \E r \in Reqs :
        /\ silent[r]
        /\ pc[r] = "done"
        /\ IsJsonError(res[r], 500, {"Proxy Error"})
        /\ ~conn[r].closed
        /\ proc = "running"

\* C14: the pump does not read the next chunk of the destination while a
\* write to the caller has returned false and no 'drain' has followed.
C14_NoReadWhileBufferFull ==
    [][\A r \in Reqs : conn[r].needDrain => readIdx'[r] = readIdx[r]]_vars

\* C15: after the caller has gone away the pump reads at most the chunk whose
\* read was already awaited; it does not go on reading the destination.
C15_NoReadsAfterDisconnect ==
    \A r \in Reqs :
        conn[r].closed => readIdx[r] <= conn[r].readsAtClose + 1

\* C16: the process exits only when no request is relaying.
C16_ExitOnlyAfterRelays ==
    proc = "exited" => \A r \in Reqs : pc[r] # "pumping"

\* Everything the model keeps for one request.
Own(r) ==
    <<pc[r], inbound[r], reqBody[r], route[r], targetUrl[r], outbound[r], upstream[r],
      readIdx[r], res[r], caught[r], silent[r], conn[r]>>

\* The fetch call and the response of a request are what its own inbound
\* request and its own destination response make them.
OwnOutcome(r) ==
    LET req == inbound[r]
        target == Slice(req.url, 1)
    IN  /\ outbound[r] # <<>>
           => outbound[r] =
                << [url |-> target,
                    method |-> req.method,
                    headers |-> TargetHeaders(req.headers, ParseURL(target)),
                    body |-> ExtractBody(FetchBodyOption(req.method, reqBody[r]))] >>
        /\ upstream[r] # NoUpstream
           => /\ IsPrefix(res[r].chunks, upstream[r].chunks)
              /\ res[r].status = upstream[r].status \/ caught[r].where = "pump"
              /\ caught[r].where = "none"
                 => res[r].headers =
                        CopyResponseHeaders(CorsHeaders(NewResponse).headers,
                                            upstream[r].headers)
        /\ IsJsonError(res[r], 400, {"Invalid URL"}) => res[r].json.received = target
        /\ IsJsonError(res[r], 400, {"Invalid URL format"}) => res[r].json.url = target

\* C18: requests are isolated: a step changes the state of one request at
\* most, and each request's fetch call (target, method, headers, body) and
\* response (status, headers, chunks) are determined by its own inbound
\* request and its own destination response, whatever the other request does.
C18_RequestsIsolated ==
    /\ [][\A r \in Reqs : \A q \in Reqs \ {r} : Own(r)' = Own(r) \/ Own(q)' = Own(q)]_vars
    /\ [](\A r \in Reqs : OwnOutcome(r))

\* C18's case: two requests for different targets are relaying at once, each
\* with chunks written, and their destinations answered differently.
C18_Witness ==
    \E r \in Reqs : \E q \in Reqs \ {r} :
        /\ pc[r] = "pumping" /\ pc[q] = "pumping"
        /\ res[r].chunks # <<>> /\ res[q].chunks # <<>>
        /\ LastCall(r).url # LastCall(q).url
        /\ upstream[r].chunks # upstream[q].chunks

====
